---------------------------- MODULE Spec2Model ----------------------------
(***************************************************************************)
(* Ingestion-and-alarming pipeline of the SNGPL IoT backend.               *)
(*                                                                         *)
(* Two ingestion paths write to one PostgreSQL store:                      *)
(*   - MQTTService            (app/services/mqtt_service.py)               *)
(*   - StandaloneMQTTListener (mqtt_listener.py)                           *)
(* Each runs process_device_data once per MQTT frame.  A run is cut at the *)
(* points where it touches the shared store: the station query, the        *)
(* station INSERT+commit, the duplicate query, the final commit, and the   *)
(* step after the commit (broadcast / console report).                     *)
(*                                                                         *)
(* Numbers.  Sensor values are Python floats parsed from decimal strings.  *)
(* All values and thresholds are modelled in hundredths (0.58 is 58,       *)
(* 120 is 12000), so that the comparisons of check_alarms are exact.       *)
(* Times are integers on one axis shared by datetime.now() and by the      *)
(* station-supplied event time.                                            *)
(***************************************************************************)
EXTENDS Integers, Sequences, FiniteSets, TLC

VARIABLES
    devices,                  \* table devices, in id order (id = index)
    readings,                 \* table device_readings, in id order
    alarms,                   \* table alarms, in id order
    unique_device_timestamp,  \* whether add_unique_constraint.py was applied
    clock,                    \* what datetime.now() returns
    pc,                       \* per worker: position in process_device_data
    frame,                    \* per worker: the payload being processed
    session,                  \* per worker: SQLAlchemy session / locals
    active_connections,       \* ConnectionManager.active_connections
    sent,                     \* messages delivered by send_json, in order
    recipients,               \* ALARM_EMAIL_RECIPIENTS, parsed
    notifications,            \* send_alarm_notification calls, in order
    alarm_monitoring_enabled, \* whether /tmp/alarm_monitoring_enabled exists
    log,                      \* the outcome logged for each frame, in order
    ca_pc, ca_engine, ca_reading, ca_alarms,  \* check_alarms on its own
    ws_state,                 \* per WebSocket: new, open, broken or closed
    bc_pc,                    \* ConnectionManager.broadcast: position
    bc_index,                 \* ... the list iterator's index
    bc_message,               \* ... the message being broadcast (its number)
    bc_errors,                \* ... "Error broadcasting to client" lines
    bc_started_with,          \* ... the live set when the broadcast began
    sweep_pc,                 \* check_offline_devices: position in the loop
                              \* ("off" where the thread is not followed)
    offline_devices,          \* ... the rows its query returned
    sweeps,                   \* ... completed time.sleep(5400) calls
    offline_notifications,    \* send_device_offline_notification calls
    running                   \* StandaloneMQTTListener.running

vars == << devices, readings, alarms, unique_device_timestamp, clock, pc,
           frame, session, active_connections, sent, recipients,
           notifications, alarm_monitoring_enabled, log, ca_pc, ca_engine,
           ca_reading, ca_alarms, ws_state, bc_pc, bc_index, bc_message,
           bc_errors, bc_started_with, sweep_pc, offline_devices, sweeps,
           offline_notifications, running >>

store == << devices, readings, alarms >>
ca_vars == << ca_pc, ca_engine, ca_reading, ca_alarms >>
bc_vars == << ws_state, bc_pc, bc_index, bc_message, bc_errors,
              bc_started_with >>
sweep_vars == << sweep_pc, offline_devices, sweeps, offline_notifications,
                running >>
pipeline_vars == << devices, readings, alarms, unique_device_timestamp, clock,
                    pc, frame, session, active_connections, sent, recipients,
                    notifications, alarm_monitoring_enabled, log >>

(***************************************************************************)
(* Bounds of the model.                                                    *)
(***************************************************************************)
MaxFrames == 2      \* frames delivered in one behaviour
MaxClock == 3       \* last value datetime.now() takes before a sleep
MaxBroadcasts == 2  \* calls of ConnectionManager.broadcast on its own
MaxSweeps == 2      \* time.sleep(5400) calls of the offline monitor

(***************************************************************************)
(* Workers: two MQTTService callbacks and one standalone listener.         *)
(***************************************************************************)
SvcWorkers == {"svc1", "svc2"}
LsnWorkers == {"lsn1"}
Workers == SvcWorkers \cup LsnWorkers
SeqWorkers == {"svc1", "lsn1"}   \* one of each kind when frames do not overlap

\* The WebSocket objects websocket_endpoint is called with
WebSockets == {"ws1", "ws2", "ws3"}

NoTime == -1        \* a NULL last_seen

\* One unit of time is five minutes
StaleAfter == 18    \* timedelta(minutes=90)
SleepTime == 18     \* time.sleep(5400)
NoDevice == 0       \* .first() returned None

(***************************************************************************)
(* Wire values.  str.strip(), float() and datetime.strptime() are given by *)
(* their results on the strings that occur in the modelled frames.         *)
(***************************************************************************)
strip(s) ==
    CASE s = "  "    -> ""
      [] s = "ST-7 " -> "ST-7"
      [] OTHER       -> s

NumericStrings == {"5", "-3", "50", "70", "100", "12.5", "0.6", "0"}

\* float(item.get("Addrv", 0)); raises ValueError outside NumericStrings
float(s) ==
    CASE s = "5"    -> 500
      [] s = "-3"   -> -300
      [] s = "50"   -> 5000
      [] s = "70"   -> 7000
      [] s = "100"  -> 10000
      [] s = "12.5" -> 1250
      [] s = "0.6"  -> 60
      [] s = "0"    -> 0

\* datetime.strptime(s, "%Y/%m/%d %H:%M:%S"): the pattern accepts fields
\* without zero padding, so two spellings name one instant.
ParsableUtimes == {"2025/03/01 10:00:00", "2025/3/1 10:00:00",
                   "2025/03/01 10:05:00"}

strptime(s) ==
    CASE s = "2025/03/01 10:00:00" -> 1
      [] s = "2025/3/1 10:00:00"   -> 1
      [] s = "2025/03/01 10:05:00" -> 2

(***************************************************************************)
(* Frames: {"did": ..., "Utime": ..., "content": [{"Addr", "Addrv"}, ...]} *)
(***************************************************************************)
Item(a, v) == [Addr |-> a, Addrv |-> v]

ContentE2E == << Item("T11", "5"), Item("T12", "-3") >>
ContentNormal == << Item("T10", "100"), Item("T11", "50"), Item("T12", "70"),
                    Item("T15", "12.5"), Item("T114", "0.6") >>
ContentRewrite == << Item("T12", "-3"), Item("T15", "12.5"), Item("T11", "50"),
                     Item("T12", "70"), Item("T114", "0.6") >>
ContentBad == << Item("T11", "abc") >>
\* an entry that is a JSON string, not an object
ContentNotDict == << Item("T11", "50"), [scalar |-> "T12=70"] >>

Frame(d, u, c) == [did |-> d, Utime |-> u, content |-> c]

FrameE2E == Frame("ST-7", "2025/03/01 10:00:00", ContentE2E)

FrameLater == Frame("ST-7", "2025/03/01 10:05:00", ContentE2E)
FrameRespelt == Frame("ST-7", "2025/3/1 10:00:00", ContentNormal)

\* The frames delivered one after the other: two stations, two event times,
\* and one frame for each irregularity (another spelling of an event time,
\* an empty and an unparsable event time, a non-numeric value, a repeated
\* code, a padded and a blank id).
Frames ==
    { FrameE2E, FrameLater, FrameRespelt,
      Frame("SMS-1", "2025/03/01 10:00:00", ContentNormal),
      Frame("ST-7", "", ContentNormal),
      Frame("ST-7", "2025-03-01T10:00:00", ContentNormal),
      Frame("ST-7", "2025/03/01 10:00:00", ContentBad),
      Frame("ST-7", "2025/03/01 10:00:00", ContentRewrite),
      Frame("ST-7 ", "2025/03/01 10:00:00", ContentE2E),
      Frame("  ", "2025/03/01 10:00:00", ContentNormal) }

\* The frames delivered to concurrent workers: one station, the same event
\* time (in two spellings) and a later one.
ConcFrames == { FrameE2E, FrameLater, FrameRespelt }

\* isinstance(item, dict): the entry is a JSON object
isinstance_dict(item) == DOMAIN item = {"Addr", "Addrv"}

\* every item.get() and float() of lines 104-107 succeeds
content_numeric(content) ==
    \A i \in 1..Len(content) :
        isinstance_dict(content[i]) /\ content[i].Addrv \in NumericStrings

\* StandaloneMQTTListener, lines 169-174: entries that are no objects are
\* passed over, float() is applied to the others
listener_content_numeric(content) ==
    \A i \in 1..Len(content) :
        isinstance_dict(content[i]) => content[i].Addrv \in NumericStrings

\* sensor_data after the loop of lines 104-107: the last pair of a code wins
RECURSIVE sensor_data(_)
sensor_data(content) ==
    IF content = << >> THEN << >>
    ELSE LET n    == Len(content)
             rest == sensor_data(SubSeq(content, 1, n - 1))
             a    == content[n].Addr
         IN  [c \in (DOMAIN rest) \cup {a} |->
                 IF c = a THEN float(content[n].Addrv) ELSE rest[c]]

\* StandaloneMQTTListener: sensor_data from the entries that are objects
listener_sensor_data(content) == sensor_data(SelectSeq(content, isinstance_dict))

\* sensor_data.get with a default inside every green zone.
get_default_in_range(sd, code) == IF code \in DOMAIN sd THEN sd[code] ELSE 1200

\* sensor_data.get(code, 0.0)
get(sd, code) == IF code \in DOMAIN sd THEN sd[code] ELSE 0

\* The code table of the DeviceReading(...) constructor call.
CodeOf ==
    [ temperature               |-> "T12",
      static_pressure           |-> "T11",
      differential_pressure     |-> "T10",
      volume                    |-> "T14",
      total_volume_flow         |-> "T13",
      battery                   |-> "T15",
      max_static_pressure       |-> "T16",
      min_static_pressure       |-> "T17",
      last_hour_flow_time       |-> "T18",
      last_hour_diff_pressure   |-> "T19",
      last_hour_static_pressure |-> "T110",
      last_hour_temperature     |-> "T111",
      last_hour_volume          |-> "T112",
      last_hour_energy          |-> "T113",
      specific_gravity          |-> "T114" ]

Quantities == DOMAIN CodeOf

\* DeviceReading(device_id=..., client_id=..., <quantities>, timestamp=...)
DeviceReading(device_id, client_id, sd, timestamp) ==
    [q \in Quantities \cup {"device_id", "client_id", "timestamp"} |->
        CASE q = "device_id" -> device_id
          [] q = "client_id" -> client_id
          [] q = "timestamp" -> timestamp
          [] OTHER           -> get(sd, CodeOf[q])]

(***************************************************************************)
(* Threshold alarm engine.  Thresholds in hundredths.                      *)
(***************************************************************************)
TempLow == 0
TempHigh == 12000
PressureLow == 1000
PressureHigh == 14000
DiffLow == 0
DiffHigh == 40000
BatteryLow == 1000
BatteryHigh == 1400
GravityLow == 58
GravityHigh == 69

\* Alarm(...) followed by db.add(alarm); returns the alarm
create_alarm(device_id, client_id, parameter, value, threshold_type, severity) ==
    [ device_id       |-> device_id,
      client_id       |-> client_id,
      parameter       |-> parameter,
      value           |-> value,
      threshold_type  |-> threshold_type,
      severity        |-> severity,
      is_acknowledged |-> FALSE ]

\* A block of check_alarms with the high test no longer under the elif
\* and comparing the wrong way round.
zone_no_elif(reading, device_id, client_id, q, low, lowSev, high, highSev) ==
    IF q \notin DOMAIN reading THEN << >>
    ELSE (IF reading[q] < low
             THEN << create_alarm(device_id, client_id, q, reading[q], "low", lowSev) >>
             ELSE << >>)
         \o
         (IF reading[q] < high
             THEN << create_alarm(device_id, client_id, q, reading[q], "high", highSev) >>
             ELSE << >>)

\* A block of check_alarms with inclusive bounds.
zone_inclusive(reading, device_id, client_id, q, low, lowSev, high, highSev) ==
    IF q \notin DOMAIN reading THEN << >>
    ELSE IF reading[q] <= low
         THEN << create_alarm(device_id, client_id, q, reading[q], "low", lowSev) >>
         ELSE IF reading[q] >= high
              THEN << create_alarm(device_id, client_id, q, reading[q], "high", highSev) >>
              ELSE << >>

\* One "if reading.<q> is not None: if v < low: ... elif v > high: ..." block.
\* A quantity that is None is a field the reading record does not have.
zone(reading, device_id, client_id, q, low, lowSev, high, highSev) ==
    IF q \notin DOMAIN reading THEN << >>
    ELSE IF reading[q] < low
         THEN << create_alarm(device_id, client_id, q, reading[q], "low", lowSev) >>
         ELSE IF reading[q] > high
              THEN << create_alarm(device_id, client_id, q, reading[q], "high", highSev) >>
              ELSE << >>

\* check_alarms raising no alarm for a station and parameter that already
\* have an alarm.
check_alarms_suppressing(device_id, client_id, reading) ==
    SelectSeq(
        zone(reading, device_id, client_id, "temperature",
             TempLow, "high", TempHigh, "medium")
        \o zone(reading, device_id, client_id, "static_pressure",
                PressureLow, "medium", PressureHigh, "high")
        \o zone(reading, device_id, client_id, "differential_pressure",
                DiffLow, "medium", DiffHigh, "high")
        \o zone(reading, device_id, client_id, "battery",
                BatteryLow, "high", BatteryHigh, "medium"),
        LAMBDA a : ~\E i \in 1..Len(alarms) :
                       /\ alarms[i].client_id = a.client_id
                       /\ alarms[i].parameter = a.parameter)

\* MQTTService.check_alarms: the list alarms_created
check_alarms(device_id, client_id, reading) ==
    zone(reading, device_id, client_id, "temperature",
         TempLow, "high", TempHigh, "medium")
    \o zone(reading, device_id, client_id, "static_pressure",
            PressureLow, "medium", PressureHigh, "high")
    \o zone(reading, device_id, client_id, "differential_pressure",
            DiffLow, "medium", DiffHigh, "high")
    \o zone(reading, device_id, client_id, "battery",
            BatteryLow, "high", BatteryHigh, "medium")

\* StandaloneMQTTListener.check_alarms: the same four blocks, then
\* specific gravity
listener_check_alarms(device_id, client_id, reading) ==
    zone(reading, device_id, client_id, "temperature",
         TempLow, "high", TempHigh, "medium")
    \o zone(reading, device_id, client_id, "static_pressure",
            PressureLow, "medium", PressureHigh, "high")
    \o zone(reading, device_id, client_id, "differential_pressure",
            DiffLow, "medium", DiffHigh, "high")
    \o zone(reading, device_id, client_id, "battery",
            BatteryLow, "high", BatteryHigh, "medium")
    \o zone(reading, device_id, client_id, "specific_gravity",
            GravityLow, "high", GravityHigh, "high")


(***************************************************************************)
(* The store.                                                              *)
(***************************************************************************)
\* The station row created without is_active=True.
Device_inactive(client_id, device_type) ==
    [ client_id   |-> client_id,
      device_type |-> device_type,
      is_active   |-> FALSE,
      last_seen   |-> NoTime ]

\* Device(client_id=..., is_active=True, ...): last_seen is not set
Device(client_id, device_type) ==
    [ client_id   |-> client_id,
      device_type |-> device_type,
      is_active   |-> TRUE,
      last_seen   |-> NoTime ]

\* db.query(Device).filter(Device.client_id == client_id).first()
first_device(client_id) ==
    IF \E i \in 1..Len(devices) : devices[i].client_id = client_id
    THEN CHOOSE i \in 1..Len(devices) :
            /\ devices[i].client_id = client_id
            /\ \A j \in 1..(i - 1) : devices[j].client_id # client_id
    ELSE NoDevice

\* The unique index on devices.client_id dropped.
client_id_not_unique(client_id) == FALSE

\* Column(String, unique=True): an INSERT of a second row with this
\* client_id raises IntegrityError
client_id_taken(client_id) ==
    \E i \in 1..Len(devices) : devices[i].client_id = client_id

\* UNIQUE (device_id, timestamp), where the migration was applied
device_timestamp_taken(device_id, timestamp) ==
    /\ unique_device_timestamp
    /\ \E i \in 1..Len(readings) :
          /\ readings[i].device_id = device_id
          /\ readings[i].timestamp = timestamp

\* The duplicate query keyed by the arrival time instead of the event time.
existing_reading_by_arrival(client_id, timestamp) ==
    \E i \in 1..Len(readings) :
        /\ readings[i].client_id = client_id
        /\ readings[i].timestamp = clock

\* MQTTService: db.query(DeviceReading).filter(client_id ==, timestamp ==).first()
existing_reading(client_id, timestamp) ==
    \E i \in 1..Len(readings) :
        /\ readings[i].client_id = client_id
        /\ readings[i].timestamp = timestamp

\* StandaloneMQTTListener: the same query keyed by device_id
listener_existing_reading(device_id, timestamp) ==
    \E i \in 1..Len(readings) :
        /\ readings[i].device_id = device_id
        /\ readings[i].timestamp = timestamp

(***************************************************************************)
(* A worker's session: the locals of process_device_data and the pending   *)
(* changes of its SQLAlchemy session (autoflush=False).                    *)
(***************************************************************************)
NoFrame == Frame("", "", << >>)

NoSession ==
    [ client_id      |-> "",
      device_id      |-> NoDevice,
      created        |-> FALSE,
      loaded_active  |-> FALSE,
      last_seen      |-> NoTime,
      timestamp      |-> NoTime,
      alarms_created |-> << >> ]

kind(w) == IF w \in SvcWorkers THEN "MQTTService" ELSE "StandaloneMQTTListener"

LogEntry(w, f, outcome, created) ==
    [ worker |-> w, kind |-> kind(w), frame |-> f, outcome |-> outcome,
      created |-> created ]

\* Workers between the arrival of a frame and the logging of its outcome
InFlight == {w \in Workers : pc[w] \in {"create", "dedup", "commit"}}
Delivered == Len(log) + Cardinality(InFlight)

AllIdle == \A w \in Workers : pc[w] = "idle"

\* The frame's outcome is logged and the session closed without a commit
\* having happened in this step.
Finish(w, outcome) ==
    /\ log' = Append(log, LogEntry(w, frame[w], outcome, session[w].created))
    /\ pc' = [pc EXCEPT ![w] = "idle"]
    /\ frame' = [frame EXCEPT ![w] = NoFrame]
    /\ session' = [session EXCEPT ![w] = NoSession]

\* The pending device update is written although the frame is discarded.
close_after_flush(w) ==
    [devices EXCEPT ![session[w].device_id] =
        [@ EXCEPT !.last_seen = clock, !.is_active = TRUE]]

\* "return" or "except: db.rollback()", then "finally: db.close()": the
\* pending last_seen / is_active assignment is dropped, the table is as it was
close_without_commit(w) == devices

\* The UPDATE of the device row that db.commit() flushes.  An attribute set
\* to the value it was loaded with is not part of the UPDATE.
flush_device(s) ==
    [devices EXCEPT ![s.device_id] =
        [@ EXCEPT !.last_seen = s.last_seen,
                  !.is_active = IF s.loaded_active THEN @ ELSE TRUE]]

\* Lines 109-116: the event time, or datetime.now() when Utime is empty or
\* does not parse
device_timestamp(Utime, now) ==
    IF strip(Utime) # "" /\ strip(Utime) \in ParsableUtimes
    THEN strptime(strip(Utime))
    ELSE now


(***************************************************************************)
(* MQTTService.on_message / process_device_data                            *)
(***************************************************************************)
\* Lines 44-78: the payload is decoded, the id read and the station queried.
\* A blank id ends the processing (lines 73-75).
on_message(w, f) ==
    /\ w \in SvcWorkers
    /\ pc[w] = "idle"
    /\ Delivered < MaxFrames
    /\ IF strip(f.did) = ""
       THEN /\ log' = Append(log, LogEntry(w, f, "no_id", FALSE))
            /\ UNCHANGED << pc, frame, session >>
       ELSE /\ frame' = [frame EXCEPT ![w] = f]
            /\ session' = [session EXCEPT ![w] =
                  [NoSession EXCEPT
                      !.client_id = strip(f.did),
                      !.device_id = first_device(strip(f.did)),
                      !.loaded_active =
                          IF first_device(strip(f.did)) = NoDevice THEN FALSE
                          ELSE devices[first_device(strip(f.did))].is_active]]
            /\ pc' = [pc EXCEPT ![w] =
                  IF first_device(strip(f.did)) = NoDevice THEN "create"
                  ELSE "dedup"]
            /\ UNCHANGED log
    /\ UNCHANGED << store, unique_device_timestamp, clock, active_connections,
                    sent, recipients, notifications, alarm_monitoring_enabled,
                    ca_vars, bc_vars, sweep_vars >>

\* Lines 80-94: db.add(device); db.commit(); db.refresh(device).  A station
\* committed by another session since the query makes the INSERT fail, and
\* the handler of line 163 rolls back.
create_device(w) ==
    /\ w \in SvcWorkers
    /\ pc[w] = "create"
    /\ IF client_id_taken(session[w].client_id)
       THEN /\ Finish(w, "error")
            /\ devices' = close_without_commit(w)
       ELSE /\ devices' = Append(devices, Device(session[w].client_id, "SMS"))
            /\ session' = [session EXCEPT ![w] =
                  [@ EXCEPT !.device_id = Len(devices) + 1,
                            !.created = TRUE,
                            !.loaded_active = TRUE]]
            /\ pc' = [pc EXCEPT ![w] = "dedup"]
            /\ UNCHANGED << frame, log >>
    /\ UNCHANGED << readings, alarms, unique_device_timestamp, clock,
                    active_connections, sent, recipients, notifications,
                    alarm_monitoring_enabled, ca_vars, bc_vars, sweep_vars >>

\* Lines 96-127: last_seen and is_active are assigned (pending), the content
\* is converted (float() may raise), the event time parsed and the duplicate
\* query run.
check_duplicate(w) ==
    /\ w \in SvcWorkers
    /\ pc[w] = "dedup"
    /\ IF ~content_numeric(frame[w].content)
       THEN /\ Finish(w, "error")
            /\ devices' = close_without_commit(w)
       ELSE IF existing_reading(session[w].client_id,
                                device_timestamp(frame[w].Utime, clock))
            THEN /\ Finish(w, "duplicate")
                 /\ devices' = close_without_commit(w)
            ELSE /\ session' = [session EXCEPT ![w] =
                       [@ EXCEPT !.last_seen = clock,
                                 !.timestamp =
                                     device_timestamp(frame[w].Utime, clock)]]
                 /\ pc' = [pc EXCEPT ![w] = "commit"]
                 /\ UNCHANGED << devices, frame, log >>
    /\ UNCHANGED << readings, alarms, unique_device_timestamp, clock,
                    active_connections, sent, recipients, notifications,
                    alarm_monitoring_enabled, ca_vars, bc_vars, sweep_vars >>

\* Lines 129-157: the reading is built and added, check_alarms adds its
\* alarms, and one commit writes the device update, the reading and the
\* alarms.  Where the table has the unique constraint, a second row for
\* (device_id, timestamp) makes the commit fail.
commit_reading(w) ==
    /\ w \in SvcWorkers
    /\ pc[w] = "commit"
    /\ LET s       == session[w]
           reading == DeviceReading(s.device_id, s.client_id,
                                    sensor_data(frame[w].content), s.timestamp)
           alarms_created == check_alarms(s.device_id, s.client_id, reading)
       IN  IF device_timestamp_taken(s.device_id, s.timestamp)
           THEN /\ Finish(w, "error")
                /\ devices' = close_without_commit(w)
                /\ UNCHANGED << readings, alarms >>
           ELSE /\ devices' = flush_device(s)
                /\ readings' = Append(readings, reading)
                /\ alarms' = alarms \o alarms_created
                /\ log' = Append(log, LogEntry(w, frame[w], "saved", s.created))
                /\ session' = [session EXCEPT ![w] =
                      [@ EXCEPT !.alarms_created = alarms_created]]
                /\ pc' = [pc EXCEPT ![w] = "broadcast"]
                /\ UNCHANGED frame
    /\ UNCHANGED << unique_device_timestamp, clock, active_connections, sent,
                    recipients, notifications, alarm_monitoring_enabled,
                    ca_vars, bc_vars, sweep_vars >>

\* The loop left after its first send.
broadcast_first_only(message) ==
    [i \in 1..(IF active_connections = << >> THEN 0 ELSE 1) |->
        [to |-> active_connections[i], message |-> message]]

\* ConnectionManager.broadcast: send_json to each connection in list order
broadcast(message) ==
    [i \in 1..Len(active_connections) |->
        [to |-> active_connections[i], message |-> message]]

update_message(client_id, device_id) ==
    [type |-> "device_update", client_id |-> client_id, device_id |-> device_id,
     parameter |-> "", threshold_type |-> "", severity |-> ""]

alarm_message(client_id, device_id, alarm) ==
    [type |-> "alarm", client_id |-> client_id, device_id |-> device_id,
     parameter |-> alarm.parameter, threshold_type |-> alarm.threshold_type,
     severity |-> alarm.severity]

\* Lines 347-369: for each alarm, if there are connections, one broadcast
RECURSIVE alarm_broadcasts(_, _, _)
alarm_broadcasts(client_id, device_id, alarm_list) ==
    IF alarm_list = << >> THEN << >>
    ELSE (IF active_connections # << >>
          THEN broadcast(alarm_message(client_id, device_id, Head(alarm_list)))
          ELSE << >>)
         \o alarm_broadcasts(client_id, device_id, Tail(alarm_list))

\* Lines 371-393: for each alarm of severity high, if recipients are
\* configured and the device row is found, one send_alarm_notification
RECURSIVE alarm_notifications(_, _, _)
alarm_notifications(client_id, device_id, alarm_list) ==
    IF alarm_list = << >> THEN << >>
    ELSE (IF /\ Head(alarm_list).severity = "high"
             /\ recipients # {}
             /\ device_id \in 1..Len(devices)
          THEN << [client_id |-> client_id,
                   parameter |-> Head(alarm_list).parameter,
                   to        |-> recipients] >>
          ELSE << >>)
         \o alarm_notifications(client_id, device_id, Tail(alarm_list))

\* Lines 161, 315-396: broadcast_update, then the session is closed
broadcast_update(w) ==
    /\ w \in SvcWorkers
    /\ pc[w] = "broadcast"
    /\ sent' = sent
               \o (IF active_connections # << >>
                   THEN broadcast(update_message(session[w].client_id,
                                                 session[w].device_id))
                   ELSE << >>)
               \o alarm_broadcasts(session[w].client_id, session[w].device_id,
                                   session[w].alarms_created)
    /\ notifications' = notifications
               \o alarm_notifications(session[w].client_id,
                                      session[w].device_id,
                                      session[w].alarms_created)
    /\ pc' = [pc EXCEPT ![w] = "idle"]
    /\ frame' = [frame EXCEPT ![w] = NoFrame]
    /\ session' = [session EXCEPT ![w] = NoSession]
    /\ UNCHANGED << store, unique_device_timestamp, clock, active_connections,
                    recipients, alarm_monitoring_enabled, log, ca_vars, bc_vars, sweep_vars >>


(***************************************************************************)
(* StandaloneMQTTListener.on_message / process_device_data                 *)
(***************************************************************************)
\* client_id.startswith("SMS-")
startswith_SMS(client_id) == client_id = "SMS-1"

\* Lines 94-139.  Every modelled frame carries its id in the "did" field.
listener_on_message(w, f) ==
    /\ w \in LsnWorkers
    /\ pc[w] = "idle"
    /\ Delivered < MaxFrames
    /\ IF strip(f.did) = ""
       THEN /\ log' = Append(log, LogEntry(w, f, "no_id", FALSE))
            /\ UNCHANGED << pc, frame, session >>
       ELSE /\ frame' = [frame EXCEPT ![w] = f]
            /\ session' = [session EXCEPT ![w] =
                  [NoSession EXCEPT
                      !.client_id = strip(f.did),
                      !.device_id = first_device(strip(f.did)),
                      !.loaded_active =
                          IF first_device(strip(f.did)) = NoDevice THEN FALSE
                          ELSE devices[first_device(strip(f.did))].is_active]]
            /\ pc' = [pc EXCEPT ![w] =
                  IF first_device(strip(f.did)) = NoDevice THEN "create"
                  ELSE "dedup"]
            /\ UNCHANGED log
    /\ UNCHANGED << store, unique_device_timestamp, clock, active_connections,
                    sent, recipients, notifications, alarm_monitoring_enabled,
                    ca_vars, bc_vars, sweep_vars >>

\* Lines 141-159
listener_create_device(w) ==
    /\ w \in LsnWorkers
    /\ pc[w] = "create"
    /\ IF client_id_taken(session[w].client_id)
       THEN /\ Finish(w, "error")
            /\ devices' = close_without_commit(w)
       ELSE /\ devices' = Append(devices,
                  Device(session[w].client_id,
                         IF startswith_SMS(session[w].client_id)
                         THEN "SMS" ELSE "OTHER"))
            /\ session' = [session EXCEPT ![w] =
                  [@ EXCEPT !.device_id = Len(devices) + 1,
                            !.created = TRUE,
                            !.loaded_active = TRUE]]
            /\ pc' = [pc EXCEPT ![w] = "dedup"]
            /\ UNCHANGED << frame, log >>
    /\ UNCHANGED << readings, alarms, unique_device_timestamp, clock,
                    active_connections, sent, recipients, notifications,
                    alarm_monitoring_enabled, ca_vars, bc_vars, sweep_vars >>

\* Lines 161-199: the duplicate query is keyed by the device row and by
\* current_timestamp = datetime.now(); the frame's Utime is not read.
listener_check_duplicate(w) ==
    /\ w \in LsnWorkers
    /\ pc[w] = "dedup"
    /\ IF ~listener_content_numeric(frame[w].content)
       THEN /\ Finish(w, "error")
            /\ devices' = close_without_commit(w)
       ELSE IF listener_existing_reading(session[w].device_id, clock)
            THEN /\ Finish(w, "duplicate")
                 /\ devices' = close_without_commit(w)
            ELSE /\ session' = [session EXCEPT ![w] =
                       [@ EXCEPT !.last_seen = clock, !.timestamp = clock]]
                 /\ pc' = [pc EXCEPT ![w] = "commit"]
                 /\ UNCHANGED << devices, frame, log >>
    /\ UNCHANGED << readings, alarms, unique_device_timestamp, clock,
                    active_connections, sent, recipients, notifications,
                    alarm_monitoring_enabled, ca_vars, bc_vars, sweep_vars >>

\* Lines 201-230: check_alarms runs only while the flag file exists
listener_commit_reading(w) ==
    /\ w \in LsnWorkers
    /\ pc[w] = "commit"
    /\ LET s       == session[w]
           reading == DeviceReading(s.device_id, s.client_id,
                                    listener_sensor_data(frame[w].content),
                                    s.timestamp)
           alarms_created ==
               IF alarm_monitoring_enabled
               THEN listener_check_alarms(s.device_id, s.client_id, reading)
               ELSE << >>
       IN  IF device_timestamp_taken(s.device_id, s.timestamp)
           THEN /\ Finish(w, "error")
                /\ devices' = close_without_commit(w)
                /\ UNCHANGED << readings, alarms >>
           ELSE /\ devices' = flush_device(s)
                /\ readings' = Append(readings, reading)
                /\ alarms' = alarms \o alarms_created
                /\ log' = Append(log, LogEntry(w, frame[w], "saved", s.created))
                /\ session' = [session EXCEPT ![w] =
                      [@ EXCEPT !.alarms_created = alarms_created]]
                /\ pc' = [pc EXCEPT ![w] = "report"]
                /\ UNCHANGED frame
    /\ UNCHANGED << unique_device_timestamp, clock, active_connections, sent,
                    recipients, notifications, alarm_monitoring_enabled,
                    ca_vars, bc_vars, sweep_vars >>

\* Lines 232-261: the save message and the alarm lines are printed and
\* logged, the session is closed.  Nothing is sent to any connection.
listener_report(w) ==
    /\ w \in LsnWorkers
    /\ pc[w] = "report"
    /\ pc' = [pc EXCEPT ![w] = "idle"]
    /\ frame' = [frame EXCEPT ![w] = NoFrame]
    /\ session' = [session EXCEPT ![w] = NoSession]
    /\ UNCHANGED << store, unique_device_timestamp, clock, active_connections,
                    sent, recipients, notifications, alarm_monitoring_enabled,
                    log, ca_vars, bc_vars, sweep_vars >>

(***************************************************************************)
(* Time passes.                                                            *)
(***************************************************************************)
Tick ==
    /\ clock < MaxClock + SleepTime * sweeps
    /\ clock' = clock + 1
    /\ UNCHANGED << store, unique_device_timestamp, pc, frame, session,
                    active_connections, sent, recipients, notifications,
                    alarm_monitoring_enabled, log, ca_vars, bc_vars, sweep_vars >>

(***************************************************************************)
(* check_alarms on its own: a reading is drawn, one of the two engines     *)
(* evaluates it.                                                           *)
(***************************************************************************)
Around(low, high) == {low - 1, low, low + 1, high - 1, high, high + 1}

\* Readings as process_device_data builds them (every quantity set), with
\* the five quantities the engines read on and next to their bounds.
FullReadings ==
    { [q \in Quantities \cup {"device_id", "client_id", "timestamp"} |->
          CASE q = "device_id"             -> 1
            [] q = "client_id"             -> "ST-7"
            [] q = "timestamp"             -> 1
            [] q = "temperature"           -> v[1]
            [] q = "static_pressure"       -> v[2]
            [] q = "differential_pressure" -> v[3]
            [] q = "battery"               -> v[4]
            [] q = "specific_gravity"      -> v[5]
            [] OTHER                       -> 0] :
      v \in Around(TempLow, TempHigh) \X Around(PressureLow, PressureHigh)
            \X Around(DiffLow, DiffHigh) \X Around(BatteryLow, BatteryHigh)
            \X Around(GravityLow, GravityHigh) }

\* A reading with one quantity None
Without(r, q) == [x \in (DOMAIN r) \ {q} |-> r[x]]

Checked == {"temperature", "static_pressure", "differential_pressure",
            "battery", "specific_gravity"}

Engines == {"MQTTService", "StandaloneMQTTListener"}

InitAlarms ==
    /\ devices = << >> /\ readings = << >> /\ alarms = << >>
    /\ unique_device_timestamp = FALSE
    /\ clock = 2
    /\ pc = [w \in Workers |-> "idle"]
    /\ frame = [w \in Workers |-> NoFrame]
    /\ session = [w \in Workers |-> NoSession]
    /\ active_connections = << >>
    /\ sent = << >>
    /\ recipients = {}
    /\ notifications = << >>
    /\ alarm_monitoring_enabled = TRUE
    /\ log = << >>
    /\ ca_pc = "start"
    /\ ca_engine \in Engines
    /\ ca_reading \in FullReadings
    /\ ca_alarms = << >>
    /\ ws_state = [ws \in WebSockets |->
                      IF \E i \in 1..Len(active_connections) :
                            active_connections[i] = ws
                      THEN "open" ELSE "new"]
    /\ bc_pc = "idle" /\ bc_index = 0 /\ bc_message = 0
    /\ bc_errors = << >> /\ bc_started_with = {}
    /\ sweep_pc = "off" /\ offline_devices = {} /\ sweeps = 0
    /\ offline_notifications = << >>
    /\ running = TRUE

\* A quantity of the reading is None
ca_clear ==
    /\ ca_pc = "start"
    /\ \E q \in Checked : ca_reading' = Without(ca_reading, q)
    /\ ca_pc' = "cleared"
    /\ UNCHANGED << pipeline_vars, bc_vars, sweep_vars, ca_engine, ca_alarms >>

ca_check_alarms ==
    /\ ca_pc \in {"start", "cleared"}
    /\ ca_alarms' =
          IF ca_engine = "MQTTService"
          THEN check_alarms(ca_reading.device_id, ca_reading.client_id,
                            ca_reading)
          ELSE listener_check_alarms(ca_reading.device_id,
                                     ca_reading.client_id, ca_reading)
    /\ ca_pc' = "done"
    /\ UNCHANGED << pipeline_vars, bc_vars, sweep_vars, ca_engine, ca_reading >>

NextAlarms == ca_clear \/ ca_check_alarms

SpecAlarms == InitAlarms /\ [][NextAlarms]_vars

(***************************************************************************)
(* The pipeline.                                                           *)
(***************************************************************************)
Init ==
    /\ devices = << >> /\ readings = << >> /\ alarms = << >>
    /\ unique_device_timestamp = FALSE
    /\ clock = 2
    /\ pc = [w \in Workers |-> "idle"]
    /\ frame = [w \in Workers |-> NoFrame]
    /\ session = [w \in Workers |-> NoSession]
    /\ active_connections \in {<< >>, << "ws1", "ws2" >>}
    /\ sent = << >>
    /\ recipients \in {{}, {"ops@sngpl"}}
    /\ notifications = << >>
    /\ alarm_monitoring_enabled = TRUE
    /\ log = << >>
    /\ ca_pc = "off"
    /\ ca_engine = "MQTTService"
    /\ ca_reading = << >>
    /\ ca_alarms = << >>
    /\ ws_state = [ws \in WebSockets |->
                      IF \E i \in 1..Len(active_connections) :
                            active_connections[i] = ws
                      THEN "open" ELSE "new"]
    /\ bc_pc = "idle" /\ bc_index = 0 /\ bc_message = 0
    /\ bc_errors = << >> /\ bc_started_with = {}
    /\ sweep_pc = "off" /\ offline_devices = {} /\ sweeps = 0
    /\ offline_notifications = << >>
    /\ running = TRUE

\* The store with or without the constraint of add_unique_constraint.py
InitConc ==
    /\ devices = << >> /\ readings = << >> /\ alarms = << >>
    /\ unique_device_timestamp \in BOOLEAN
    /\ clock = 2
    /\ pc = [w \in Workers |-> "idle"]
    /\ frame = [w \in Workers |-> NoFrame]
    /\ session = [w \in Workers |-> NoSession]
    /\ active_connections = << "ws1", "ws2" >>
    /\ sent = << >>
    /\ recipients = {"ops@sngpl"}
    /\ notifications = << >>
    /\ alarm_monitoring_enabled = TRUE
    /\ log = << >>
    /\ ca_pc = "off"
    /\ ca_engine = "MQTTService"
    /\ ca_reading = << >>
    /\ ca_alarms = << >>
    /\ ws_state = [ws \in WebSockets |->
                      IF \E i \in 1..Len(active_connections) :
                            active_connections[i] = ws
                      THEN "open" ELSE "new"]
    /\ bc_pc = "idle" /\ bc_index = 0 /\ bc_message = 0
    /\ bc_errors = << >> /\ bc_started_with = {}
    /\ sweep_pc = "off" /\ offline_devices = {} /\ sweeps = 0
    /\ offline_notifications = << >>
    /\ running = FALSE

Step(w) ==
    \/ create_device(w)
    \/ check_duplicate(w)
    \/ commit_reading(w)
    \/ broadcast_update(w)
    \/ listener_create_device(w)
    \/ listener_check_duplicate(w)
    \/ listener_commit_reading(w)
    \/ listener_report(w)

\* Frames are processed one after the other
NextSeq ==
    \/ \E w \in SeqWorkers, f \in Frames : AllIdle /\ on_message(w, f)
    \/ \E w \in SeqWorkers, f \in Frames : AllIdle /\ listener_on_message(w, f)
    \/ \E w \in SeqWorkers : Step(w)
    \/ Tick

\* Workers run concurrently
NextConc ==
    \/ \E w \in Workers, f \in ConcFrames : on_message(w, f)
    \/ \E w \in Workers, f \in ConcFrames : listener_on_message(w, f)
    \/ \E w \in Workers : Step(w)
    \/ Tick

SpecSeq == Init /\ [][NextSeq]_vars
SpecConc == InitConc /\ [][NextConc]_vars


(***************************************************************************)
(* StandaloneMQTTListener.check_offline_devices: the loop of the offline   *)
(* monitor thread.  One pass is cut where it touches the store: the query  *)
(* and the commit.                                                         *)
(***************************************************************************)
\* The comparison of the query with <= in place of <.
is_stale_inclusive(last_seen, now) == last_seen <= now - StaleAfter

\* Device.last_seen < now - timedelta(minutes=90)
is_stale(last_seen, now) == last_seen < now - StaleAfter

\* db.query(Device).filter(is_active == True, last_seen < threshold).all();
\* a NULL last_seen satisfies no comparison
query_offline_devices(now) ==
    {i \in 1..Len(devices) :
        /\ devices[i].is_active
        /\ devices[i].last_seen # NoTime
        /\ is_stale(devices[i].last_seen, now)}

\* The client_id of the selected rows, in id order
in_id_order(ids) ==
    LET sel == SelectSeq([i \in 1..Len(devices) |-> i],
                         LAMBDA i : i \in ids)
    IN  [k \in 1..Len(sel) |-> devices[sel[k]].client_id]

\* Lines 418-429.  With nothing selected there is nothing to commit, and
\* the session is closed.
sweep_query ==
    /\ sweep_pc = "query"
    /\ offline_devices' = query_offline_devices(clock)
    /\ sweep_pc' = IF query_offline_devices(clock) = {} THEN "sleep"
                   ELSE "commit"
    /\ UNCHANGED << store, unique_device_timestamp, clock, pc, frame, session,
                    active_connections, sent, recipients, notifications,
                    alarm_monitoring_enabled, log, ca_vars, bc_vars, sweeps,
                    offline_notifications, running >>

\* Lines 431-447: each selected row gets is_active = False and an offline
\* notification is triggered for it (a failure of which is caught); the
\* commit writes the flag of these rows and nothing else.
sweep_commit ==
    /\ sweep_pc = "commit"
    /\ devices' = [i \in 1..Len(devices) |->
                      IF i \in offline_devices
                      THEN [devices[i] EXCEPT !.is_active = FALSE]
                      ELSE devices[i]]
    /\ offline_notifications' =
          offline_notifications \o in_id_order(offline_devices)
    /\ offline_devices' = {}
    /\ sweep_pc' = "sleep"
    /\ UNCHANGED << readings, alarms, unique_device_timestamp, clock, pc,
                    frame, session, active_connections, sent, recipients,
                    notifications, alarm_monitoring_enabled, log, ca_vars,
                    bc_vars, sweeps, running >>

\* Line 456: time.sleep(5400), then line 416: the next pass while
\* self.running, the end of the thread otherwise
sweep_sleep ==
    /\ sweep_pc = "sleep"
    /\ sweeps < MaxSweeps \/ ~running
    /\ clock' = clock + SleepTime
    /\ sweeps' = sweeps + 1
    /\ sweep_pc' = IF running THEN "query" ELSE "stopped"
    /\ UNCHANGED << store, unique_device_timestamp, pc, frame, session,
                    active_connections, sent, recipients, notifications,
                    alarm_monitoring_enabled, log, ca_vars, bc_vars,
                    offline_devices, offline_notifications, running >>

\* The frames delivered while the offline monitor runs: one station twice
\* at one event time and at a later one, with a non-numeric value, and a
\* second station.
SweepFrames ==
    { FrameE2E, FrameLater,
      Frame("ST-7", "2025/03/01 10:00:00", ContentBad),
      Frame("SMS-1", "2025/03/01 10:00:00", ContentNormal) }

InitSweep ==
    /\ devices = << >> /\ readings = << >> /\ alarms = << >>
    /\ unique_device_timestamp = FALSE
    /\ clock = 2
    /\ pc = [w \in Workers |-> "idle"]
    /\ frame = [w \in Workers |-> NoFrame]
    /\ session = [w \in Workers |-> NoSession]
    /\ active_connections = << "ws1" >>
    /\ sent = << >>
    /\ recipients = {"ops@sngpl"}
    /\ notifications = << >>
    /\ alarm_monitoring_enabled = TRUE
    /\ log = << >>
    /\ ca_pc = "off"
    /\ ca_engine = "MQTTService"
    /\ ca_reading = << >>
    /\ ca_alarms = << >>
    /\ ws_state = [ws \in WebSockets |-> IF ws = "ws1" THEN "open" ELSE "new"]
    /\ bc_pc = "idle" /\ bc_index = 0 /\ bc_message = 0
    /\ bc_errors = << >> /\ bc_started_with = {}
    /\ sweep_pc = "query" /\ offline_devices = {} /\ sweeps = 0
    /\ offline_notifications = << >>
    /\ running = TRUE

\* Frames one after the other, the monitor thread beside them; no frame is
\* in the middle of its processing for the 90 minutes of a sleep
NextSweep ==
    \/ \E w \in SeqWorkers, f \in SweepFrames : AllIdle /\ on_message(w, f)
    \/ \E w \in SeqWorkers, f \in SweepFrames :
          AllIdle /\ listener_on_message(w, f)
    \/ \E w \in SeqWorkers : Step(w)
    \/ Tick
    \/ sweep_query
    \/ sweep_commit
    \/ AllIdle /\ sweep_sleep

SpecSweep == InitSweep /\ [][NextSweep]_vars

\* Lines 431-451 with db.commit() raising: the rows were marked and their
\* notifications triggered inside the loop; the handler of line 449 rolls
\* the flags back.
sweep_commit_fails ==
    /\ sweep_pc = "commit"
    /\ offline_notifications' =
          offline_notifications \o in_id_order(offline_devices)
    /\ offline_devices' = {}
    /\ sweep_pc' = "sleep"
    /\ UNCHANGED << pipeline_vars, ca_vars, bc_vars, sweeps, running >>

\* The offline monitor with a store that may refuse its commit
NextSweepFault ==
    \/ NextSweep
    \/ sweep_commit_fails

SpecSweepFault == InitSweep /\ [][NextSweepFault]_vars

\* The monitor thread is scheduled fairly: each pass goes on to its end and
\* each sleep ends.
SpecSweepFair ==
    /\ InitSweep
    /\ [][NextSweep]_vars
    /\ WF_vars(sweep_query)
    /\ WF_vars(sweep_commit)
    /\ WF_vars(AllIdle /\ sweep_sleep)

(***************************************************************************)
(* StandaloneMQTTListener.stop and the end of the process.  start() runs   *)
(* the monitor as a daemon thread and, on KeyboardInterrupt, calls stop()  *)
(* and returns; main() returns after it and the interpreter exits.         *)
(***************************************************************************)
\* Line 513: self.running = False
stop ==
    /\ running
    /\ sweep_pc # "off"
    /\ running' = FALSE
    /\ UNCHANGED << pipeline_vars, ca_vars, bc_vars, sweep_pc, offline_devices,
                    sweeps, offline_notifications >>

\* Lines 514-518 and 502-503: join(timeout=5) returns with the thread still
\* alive, stop() and start() return and the interpreter exits, which ends
\* the daemon thread (line 494) wherever it is; a session that was not
\* committed writes nothing.
stop_return ==
    /\ ~running
    /\ sweep_pc \in {"query", "commit", "sleep"}
    /\ sweep_pc' = "killed"
    /\ offline_devices' = {}
    /\ UNCHANGED << pipeline_vars, ca_vars, bc_vars, sweeps,
                    offline_notifications, running >>

\* The frames delivered while the listener is stopped
StopFrames == { FrameE2E }

\* The listener receives frames until stop() disconnects it; MQTTService is
\* another process.
NextStop ==
    \/ \E w \in SeqWorkers, f \in StopFrames : AllIdle /\ on_message(w, f)
    \/ \E w \in SeqWorkers, f \in StopFrames :
          running /\ AllIdle /\ listener_on_message(w, f)
    \/ \E w \in SeqWorkers : Step(w)
    \/ Tick
    \/ sweep_query
    \/ sweep_commit
    \/ sweep_sleep
    \/ stop
    \/ stop_return

\* The threads are scheduled fairly: the monitor thread goes on, and a
\* stop() that was called returns.
SpecStop ==
    /\ InitSweep
    /\ [][NextStop]_vars
    /\ WF_vars(sweep_query)
    /\ WF_vars(sweep_commit)
    /\ WF_vars(sweep_sleep)
    /\ WF_vars(stop_return)

(***************************************************************************)
(* The alarm monitoring switch: POST /alarms/monitoring/toggle creates or   *)
(* removes the flag file that the standalone listener looks for.           *)
(***************************************************************************)
\* toggle_alarm_monitoring that also empties the alarm table.
toggle_clearing_alarms ==
    /\ alarm_monitoring_enabled' = ~alarm_monitoring_enabled
    /\ alarms' = << >>
    /\ UNCHANGED << devices, readings, unique_device_timestamp, clock, pc,
                    frame, session, active_connections, sent, recipients,
                    notifications, log, ca_vars, bc_vars, sweep_vars >>

\* toggle_alarm_monitoring: os.remove(flag_file) if it exists, else create
\* it; the audit log entry goes to a table outside this model
toggle_alarm_monitoring ==
    /\ alarm_monitoring_enabled' = ~alarm_monitoring_enabled
    /\ UNCHANGED << store, unique_device_timestamp, clock, pc, frame, session,
                    active_connections, sent, recipients, notifications, log,
                    ca_vars, bc_vars, sweep_vars >>

\* every code the engines read, in the green zone, but specific gravity
ContentNoGravity == << Item("T10", "100"), Item("T11", "50"),
                       Item("T12", "70"), Item("T15", "12.5") >>

\* The frames delivered while the switch is used: one without battery and
\* specific gravity, one without specific gravity only, one with every
\* code the engines read.
ToggleFrames ==
    { FrameE2E,
      Frame("ST-7", "2025/03/01 10:05:00", ContentNoGravity),
      Frame("SMS-1", "2025/03/01 10:00:00", ContentNormal) }

NextToggle ==
    \/ \E w \in SeqWorkers, f \in ToggleFrames : AllIdle /\ on_message(w, f)
    \/ \E w \in SeqWorkers, f \in ToggleFrames :
          AllIdle /\ listener_on_message(w, f)
    \/ \E w \in SeqWorkers : Step(w)
    \/ Tick
    \/ toggle_alarm_monitoring

SpecToggle == Init /\ [][NextToggle]_vars

(***************************************************************************)
(* Payloads that are no conforming frame.                                  *)
(***************************************************************************)
\* Text that is no JSON, JSON that is no object, and an object whose "did"
\* is a number
Undecodable == {"not json", "[1, 2]", "{did: 7}"}

\* json.loads raises JSONDecodeError, which on_message logs as malformed;
\* data.get and .strip() raise AttributeError, which is logged as an error
undecodable_outcome(raw) == IF raw = "not json" THEN "malformed" ELSE "error"

\* MQTTService, lines 44-71: the payload is given up before the first query
on_message_undecodable(w, raw) ==
    /\ w \in SvcWorkers
    /\ pc[w] = "idle"
    /\ Delivered < MaxFrames
    /\ log' = Append(log, LogEntry(w, NoFrame, undecodable_outcome(raw), FALSE))
    /\ UNCHANGED << store, unique_device_timestamp, clock, pc, frame, session,
                    active_connections, sent, recipients, notifications,
                    alarm_monitoring_enabled, ca_vars, bc_vars, sweep_vars >>

\* StandaloneMQTTListener, lines 94-131
listener_on_message_undecodable(w, raw) ==
    /\ w \in LsnWorkers
    /\ pc[w] = "idle"
    /\ Delivered < MaxFrames
    /\ log' = Append(log, LogEntry(w, NoFrame, undecodable_outcome(raw), FALSE))
    /\ UNCHANGED << store, unique_device_timestamp, clock, pc, frame, session,
                    active_connections, sent, recipients, notifications,
                    alarm_monitoring_enabled, ca_vars, bc_vars, sweep_vars >>

\* A conforming frame, and frames of a known and of an unknown station with
\* a non-numeric value or with an entry that is no object
MalformedFrames ==
    { FrameE2E,
      Frame("ST-7", "2025/03/01 10:00:00", ContentBad),
      Frame("ST-7", "2025/03/01 10:05:00", ContentNotDict),
      Frame("SMS-1", "2025/03/01 10:00:00", ContentBad) }

NextMalformed ==
    \/ \E w \in SeqWorkers, f \in MalformedFrames : AllIdle /\ on_message(w, f)
    \/ \E w \in SeqWorkers, f \in MalformedFrames :
          AllIdle /\ listener_on_message(w, f)
    \/ \E w \in SeqWorkers, raw \in Undecodable :
          AllIdle /\ on_message_undecodable(w, raw)
    \/ \E w \in SeqWorkers, raw \in Undecodable :
          AllIdle /\ listener_on_message_undecodable(w, raw)
    \/ \E w \in SeqWorkers : Step(w)
    \/ Tick

SpecMalformed == Init /\ [][NextMalformed]_vars

(***************************************************************************)
(* The store fails the write of an alarm.                                  *)
(***************************************************************************)
\* MQTTService, lines 155-168: the INSERT of an alarm fails inside
\* db.commit(); the handler rolls back the transaction, which holds the
\* device update, the reading and the alarms
alarm_write_fails(w) ==
    /\ w \in SvcWorkers
    /\ pc[w] = "commit"
    /\ check_alarms(session[w].device_id, session[w].client_id,
                    DeviceReading(session[w].device_id, session[w].client_id,
                                  sensor_data(frame[w].content),
                                  session[w].timestamp)) # << >>
    /\ Finish(w, "alarm_write_failed")
    /\ devices' = close_without_commit(w)
    /\ UNCHANGED << readings, alarms, unique_device_timestamp, clock,
                    active_connections, sent, recipients, notifications,
                    alarm_monitoring_enabled, ca_vars, bc_vars, sweep_vars >>

\* StandaloneMQTTListener, lines 224-258
listener_alarm_write_fails(w) ==
    /\ w \in LsnWorkers
    /\ pc[w] = "commit"
    /\ alarm_monitoring_enabled
    /\ listener_check_alarms(session[w].device_id, session[w].client_id,
          DeviceReading(session[w].device_id, session[w].client_id,
                        listener_sensor_data(frame[w].content),
                        session[w].timestamp)) # << >>
    /\ Finish(w, "alarm_write_failed")
    /\ devices' = close_without_commit(w)
    /\ UNCHANGED << readings, alarms, unique_device_timestamp, clock,
                    active_connections, sent, recipients, notifications,
                    alarm_monitoring_enabled, ca_vars, bc_vars, sweep_vars >>

\* MQTTService, lines 152-168: the INSERT of the reading fails inside
\* db.commit(); the handler rolls back the transaction
reading_write_fails(w) ==
    /\ w \in SvcWorkers
    /\ pc[w] = "commit"
    /\ Finish(w, "reading_write_failed")
    /\ devices' = close_without_commit(w)
    /\ UNCHANGED << readings, alarms, unique_device_timestamp, clock,
                    active_connections, sent, recipients, notifications,
                    alarm_monitoring_enabled, ca_vars, bc_vars, sweep_vars >>

\* StandaloneMQTTListener, lines 222-258
listener_reading_write_fails(w) ==
    /\ w \in LsnWorkers
    /\ pc[w] = "commit"
    /\ Finish(w, "reading_write_failed")
    /\ devices' = close_without_commit(w)
    /\ UNCHANGED << readings, alarms, unique_device_timestamp, clock,
                    active_connections, sent, recipients, notifications,
                    alarm_monitoring_enabled, ca_vars, bc_vars, sweep_vars >>

\* The alarms of the list that trigger a notification: severity high, with
\* recipients configured (lines 372-376)
notified(alarm_list) ==
    {j \in 1..Len(alarm_list) :
        alarm_list[j].severity = "high" /\ recipients # {}}

\* MQTTService.broadcast_update, lines 376-396: SessionLocal() or the query
\* of the device row raises for the j-th alarm, after that alarm's
\* broadcast.  Only send_alarm_notification is inside a try/except of the
\* loop; this exception leaves the loop and is logged by the handler of
\* line 395.
device_lookup_fails(w) ==
    /\ w \in SvcWorkers
    /\ pc[w] = "broadcast"
    /\ \E j \in notified(session[w].alarms_created) :
          /\ sent' = sent
                \o (IF active_connections # << >>
                    THEN broadcast(update_message(session[w].client_id,
                                                  session[w].device_id))
                    ELSE << >>)
                \o alarm_broadcasts(session[w].client_id, session[w].device_id,
                                    SubSeq(session[w].alarms_created, 1, j))
          /\ notifications' = notifications
                \o alarm_notifications(session[w].client_id,
                                       session[w].device_id,
                                       SubSeq(session[w].alarms_created,
                                              1, j - 1))
    /\ pc' = [pc EXCEPT ![w] = "idle"]
    /\ frame' = [frame EXCEPT ![w] = NoFrame]
    /\ session' = [session EXCEPT ![w] = NoSession]
    /\ UNCHANGED << store, unique_device_timestamp, clock, active_connections,
                    recipients, alarm_monitoring_enabled, log, ca_vars,
                    bc_vars, sweep_vars >>

\* Lines 383-391: send_alarm_notification raises for the j-th alarm; the
\* exception is caught and logged, and the loop goes on
send_email_fails(w) ==
    /\ w \in SvcWorkers
    /\ pc[w] = "broadcast"
    /\ \E j \in notified(session[w].alarms_created) :
          notifications' = notifications
             \o alarm_notifications(session[w].client_id,
                                    session[w].device_id,
                                    SubSeq(session[w].alarms_created, 1, j - 1))
             \o alarm_notifications(session[w].client_id,
                                    session[w].device_id,
                                    SubSeq(session[w].alarms_created, j + 1,
                                           Len(session[w].alarms_created)))
    /\ sent' = sent
          \o (IF active_connections # << >>
              THEN broadcast(update_message(session[w].client_id,
                                            session[w].device_id))
              ELSE << >>)
          \o alarm_broadcasts(session[w].client_id, session[w].device_id,
                              session[w].alarms_created)
    /\ pc' = [pc EXCEPT ![w] = "idle"]
    /\ frame' = [frame EXCEPT ![w] = NoFrame]
    /\ session' = [session EXCEPT ![w] = NoSession]
    /\ UNCHANGED << store, unique_device_timestamp, clock, active_connections,
                    recipients, alarm_monitoring_enabled, log, ca_vars,
                    bc_vars, sweep_vars >>

\* Two frames that raise alarms and one that raises none in MQTTService
FaultFrames ==
    { FrameE2E, FrameLater,
      Frame("SMS-1", "2025/03/01 10:00:00", ContentNormal) }

NextFault ==
    \/ \E w \in SeqWorkers, f \in FaultFrames : AllIdle /\ on_message(w, f)
    \/ \E w \in SeqWorkers, f \in FaultFrames :
          AllIdle /\ listener_on_message(w, f)
    \/ \E w \in SeqWorkers : Step(w)
    \/ \E w \in SeqWorkers : alarm_write_fails(w)
    \/ \E w \in SeqWorkers : listener_alarm_write_fails(w)
    \/ \E w \in SeqWorkers : reading_write_fails(w)
    \/ \E w \in SeqWorkers : listener_reading_write_fails(w)
    \/ \E w \in SeqWorkers : device_lookup_fails(w)
    \/ \E w \in SeqWorkers : send_email_fails(w)
    \/ Tick

SpecFault == Init /\ [][NextFault]_vars

(***************************************************************************)
(* ConnectionManager on its own.  websocket_endpoint connects and          *)
(* disconnects WebSockets; broadcast iterates active_connections and       *)
(* awaits each send_json, so other coroutines and threads run between two  *)
(* sends.  Messages are numbered in the order of the broadcast calls.      *)
(***************************************************************************)
\* list.remove(x): the list without its first x
remove(list, x) ==
    LET i == CHOOSE k \in 1..Len(list) :
                 list[k] = x /\ \A j \in 1..(k - 1) : list[j] # x
    IN  SubSeq(list, 1, i - 1) \o SubSeq(list, i + 1, Len(list))

contains(list, x) == \E k \in 1..Len(list) : list[k] = x

Delivery(ws, message) == [to |-> ws, message |-> message]

\* websocket_endpoint, line 21: manager.connect(websocket)
connect(ws) ==
    /\ ws_state[ws] = "new"
    /\ ws_state' = [ws_state EXCEPT ![ws] = "open"]
    /\ active_connections' = Append(active_connections, ws)
    /\ UNCHANGED << store, unique_device_timestamp, clock, pc, frame, session,
                    sent, recipients, notifications, alarm_monitoring_enabled,
                    log, ca_vars, bc_pc, bc_index, bc_message, bc_errors,
                    bc_started_with, sweep_vars >>

\* The peer of an accepted WebSocket goes away: send_json raises from now on
peer_lost(ws) ==
    /\ ws_state[ws] = "open"
    /\ ws_state' = [ws_state EXCEPT ![ws] = "broken"]
    /\ UNCHANGED << store, unique_device_timestamp, clock, pc, frame, session,
                    active_connections, sent, recipients, notifications,
                    alarm_monitoring_enabled, log, ca_vars, bc_pc, bc_index,
                    bc_message, bc_errors, bc_started_with, sweep_vars >>

\* websocket_endpoint, lines 36-41: receive_text raised, manager.disconnect
disconnect(ws) ==
    /\ ws_state[ws] \in {"open", "broken"}
    /\ ws_state' = [ws_state EXCEPT ![ws] = "closed"]
    /\ active_connections' =
          IF contains(active_connections, ws)
          THEN remove(active_connections, ws)
          ELSE active_connections
    /\ UNCHANGED << store, unique_device_timestamp, clock, pc, frame, session,
                    sent, recipients, notifications, alarm_monitoring_enabled,
                    log, ca_vars, bc_pc, bc_index, bc_message, bc_errors,
                    bc_started_with, sweep_vars >>

\* The caller's "if manager.active_connections:", then the call: the for
\* loop takes an iterator over the list itself
broadcast_begin ==
    /\ bc_pc = "idle"
    /\ bc_message < MaxBroadcasts
    /\ active_connections # << >>
    /\ bc_pc' = "iter"
    /\ bc_index' = 0
    /\ bc_message' = bc_message + 1
    /\ bc_started_with' = {active_connections[k] :
                              k \in 1..Len(active_connections)}
    /\ UNCHANGED << store, unique_device_timestamp, clock, pc, frame, session,
                    active_connections, sent, recipients, notifications,
                    alarm_monitoring_enabled, log, ca_vars, ws_state,
                    bc_errors, sweep_vars >>

\* The exception of send_json ends the loop.
raise_send_error(index) == Len(active_connections)

\* except Exception: print(...); the loop goes on with the next index
after_send_error(index) == index + 1

\* One iteration: the iterator yields active_connections[index] as the list
\* is now, and send_json delivers or raises
broadcast_send ==
    /\ bc_pc = "iter"
    /\ bc_index < Len(active_connections)
    /\ LET connection == active_connections[bc_index + 1]
       IN  IF ws_state[connection] = "broken"
           THEN /\ bc_errors' = Append(bc_errors,
                                       Delivery(connection, bc_message))
                /\ bc_index' = after_send_error(bc_index)
                /\ UNCHANGED sent
           ELSE /\ sent' = Append(sent, Delivery(connection, bc_message))
                /\ bc_index' = bc_index + 1
                /\ UNCHANGED bc_errors
    /\ UNCHANGED << store, unique_device_timestamp, clock, pc, frame, session,
                    active_connections, recipients, notifications,
                    alarm_monitoring_enabled, log, ca_vars, ws_state, bc_pc,
                    bc_message, bc_started_with, sweep_vars >>

\* The iterator is exhausted: its index has reached the length of the list
broadcast_end ==
    /\ bc_pc = "iter"
    /\ bc_index >= Len(active_connections)
    /\ bc_pc' = "done"
    /\ UNCHANGED << store, unique_device_timestamp, clock, pc, frame, session,
                    active_connections, sent, recipients, notifications,
                    alarm_monitoring_enabled, log, ca_vars, ws_state,
                    bc_index, bc_message, bc_errors, bc_started_with,
                    sweep_vars >>

\* run_until_complete returns to the caller
broadcast_return ==
    /\ bc_pc = "done"
    /\ bc_pc' = "idle"
    /\ bc_index' = 0
    /\ bc_started_with' = {}
    /\ UNCHANGED << store, unique_device_timestamp, clock, pc, frame, session,
                    active_connections, sent, recipients, notifications,
                    alarm_monitoring_enabled, log, ca_vars, ws_state,
                    bc_message, bc_errors, sweep_vars >>

InitBroadcast ==
    /\ devices = << >> /\ readings = << >> /\ alarms = << >>
    /\ unique_device_timestamp = FALSE
    /\ clock = 2
    /\ pc = [w \in Workers |-> "idle"]
    /\ frame = [w \in Workers |-> NoFrame]
    /\ session = [w \in Workers |-> NoSession]
    /\ active_connections = << >>
    /\ sent = << >>
    /\ recipients = {}
    /\ notifications = << >>
    /\ alarm_monitoring_enabled = TRUE
    /\ log = << >>
    /\ ca_pc = "off"
    /\ ca_engine = "MQTTService"
    /\ ca_reading = << >>
    /\ ca_alarms = << >>
    /\ ws_state = [ws \in WebSockets |-> "new"]
    /\ bc_pc = "idle" /\ bc_index = 0 /\ bc_message = 0
    /\ bc_errors = << >> /\ bc_started_with = {}
    /\ sweep_pc = "off" /\ offline_devices = {} /\ sweeps = 0
    /\ offline_notifications = << >>
    /\ running = FALSE

\* The live set changes only between two broadcasts
NextBroadcast ==
    \/ \E ws \in WebSockets : bc_pc = "idle" /\ connect(ws)
    \/ \E ws \in WebSockets : bc_pc = "idle" /\ disconnect(ws)
    \/ \E ws \in WebSockets : peer_lost(ws)
    \/ broadcast_begin
    \/ broadcast_send
    \/ broadcast_end
    \/ broadcast_return

\* The endpoint's coroutines run between the sends of a broadcast
NextBroadcastConc ==
    \/ \E ws \in WebSockets : connect(ws)
    \/ \E ws \in WebSockets : disconnect(ws)
    \/ \E ws \in WebSockets : peer_lost(ws)
    \/ broadcast_begin
    \/ broadcast_send
    \/ broadcast_end
    \/ broadcast_return

SpecBroadcast == InitBroadcast /\ [][NextBroadcast]_vars
SpecBroadcastConc == InitBroadcast /\ [][NextBroadcastConc]_vars


(***************************************************************************)
(* Properties.                                                             *)
(***************************************************************************)
LogIdx == 1..Len(log)

\* The frame names a station and an event time that parses
Keyed(f) == strip(f.did) # "" /\ strip(f.Utime) \in ParsableUtimes

\* Two frames with the same station identifier and the same event time
SameKey(f, g) ==
    /\ Keyed(f) /\ Keyed(g)
    /\ strip(f.did) = strip(g.did)
    /\ strptime(strip(f.Utime)) = strptime(strip(g.Utime))

\* Every sensor value of the frame is numeric
Conforming(f) == content_numeric(f.content)

ReadingsAt(client_id, timestamp) ==
    {i \in 1..Len(readings) : /\ readings[i].client_id = client_id
                              /\ readings[i].timestamp = timestamp}

ReadingsOf(client_id) ==
    {i \in 1..Len(readings) : readings[i].client_id = client_id}

AlarmsOf(client_id) ==
    {i \in 1..Len(alarms) : alarms[i].client_id = client_id}

DevicesOf(client_id) ==
    {i \in 1..Len(devices) : devices[i].client_id = client_id}

\* C1.  MQTTService: once two conforming frames with the same station
\* identifier and the same parsable event time have been processed one
\* after the other, the store holds exactly one reading for that station
\* and event time.
C1_DedupIdempotent ==
    \A i, j \in LogIdx :
        ( /\ i < j
          /\ log[i].kind = "MQTTService" /\ log[j].kind = "MQTTService"
          /\ SameKey(log[i].frame, log[j].frame)
          /\ Conforming(log[i].frame) /\ Conforming(log[j].frame) )
        => Cardinality(ReadingsAt(strip(log[i].frame.did),
                                  strptime(strip(log[i].frame.Utime)))) = 1

\* C1 witness: a frame was saved and its second delivery found the reading.
C1_Witness ==
    \E i, j \in LogIdx :
        /\ i < j
        /\ log[i].kind = "MQTTService" /\ log[j].kind = "MQTTService"
        /\ log[i].frame = log[j].frame
        /\ Keyed(log[i].frame)
        /\ log[i].outcome = "saved" /\ log[j].outcome = "duplicate"

\* C2.  In every reachable state of concurrently running workers the
\* reading table holds at most one row per (station, timestamp).
C2_AtMostOneReadingPerKey ==
    \A i, j \in 1..Len(readings) :
        ( /\ readings[i].device_id = readings[j].device_id
          /\ readings[i].timestamp = readings[j].timestamp ) => i = j

\* C3.  StandaloneMQTTListener: the second of two conforming frames with
\* the same station identifier and the same event time is discarded as a
\* duplicate, so that the two deliveries persist one reading.
C3_ListenerDedupByEventTime ==
    \A i, j \in LogIdx :
        ( /\ i < j
          /\ log[i].kind = "StandaloneMQTTListener"
          /\ log[j].kind = "StandaloneMQTTListener"
          /\ SameKey(log[i].frame, log[j].frame)
          /\ Conforming(log[i].frame) /\ Conforming(log[j].frame) )
        => log[j].outcome = "duplicate"

\* C4.  The step in which MQTTService finds an existing reading and
\* discards the frame changes no table and sends nothing, and the discarded
\* frame's processing created no station row either.
C4_DuplicateDiscarded ==
    [][ \A w \in SvcWorkers :
          ( /\ pc[w] = "dedup" /\ pc'[w] = "idle"
            /\ Len(log') = Len(log) + 1
            /\ log'[Len(log')].outcome = "duplicate" )
          => ( /\ devices' = devices
               /\ readings' = readings
               /\ alarms' = alarms
               /\ sent' = sent
               /\ notifications' = notifications
               /\ ~session[w].created ) ]_vars

\* C4 witness: MQTTService discarded a frame of a station that has a
\* last-contact time, at a later time than that contact.
C4_Witness ==
    \E i \in LogIdx :
        /\ log[i].kind = "MQTTService"
        /\ log[i].outcome = "duplicate"
        /\ i = Len(log)
        /\ \E d \in DevicesOf(strip(log[i].frame.did)) :
               devices[d].last_seen # NoTime /\ devices[d].last_seen < clock

\* C5.  When a conforming frame for a station without a record has been
\* processed (either path), the frame was saved, the station table holds
\* exactly one record with that identifier, it is active, and exactly one
\* reading row belongs to it.
C5_UnknownStationAutoCreated ==
    ( /\ Len(log) > 0
      /\ log[Len(log)].created
      /\ Conforming(log[Len(log)].frame) )
    => LET e == log[Len(log)]
           c == strip(e.frame.did)
       IN  /\ e.outcome = "saved"
           /\ Cardinality(DevicesOf(c)) = 1
           /\ \A d \in DevicesOf(c) :
                 /\ devices[d].is_active
                 /\ Cardinality({i \in 1..Len(readings) :
                                    readings[i].device_id = d}) = 1
           /\ Cardinality(ReadingsOf(c)) = 1

\* C5 witness: the first frame of a station was saved, by either path.
C5_Witness ==
    /\ Len(log) > 0
    /\ log[Len(log)].created
    /\ log[Len(log)].outcome = "saved"
    /\ log[Len(log)].kind = "StandaloneMQTTListener"
    /\ Len(devices) = 2

\* C6.  Whatever the interleaving, no two station records carry the same
\* identifier.
C6_UniqueStationIdentifier ==
    \A i, j \in 1..Len(devices) :
        devices[i].client_id = devices[j].client_id => i = j

\* C6 witness: a worker that found no station is about to insert one whose
\* identifier another worker has inserted since.
C6_Witness ==
    \E w \in Workers :
        pc[w] = "create" /\ client_id_taken(session[w].client_id)


\* The alarms of one parameter are those of the rule "low alarm of
\* severity lowSev iff the value is below low, high alarm of severity
\* highSev iff it is above high"; a quantity that is None raises nothing.
RuleHolds(out, r, q, low, lowSev, high, highSev) ==
    LET idx == {i \in 1..Len(out) : out[i].parameter = q}
    IN  /\ (\E i \in idx : out[i].threshold_type = "low")
           <=> (q \in DOMAIN r /\ r[q] < low)
        /\ (\E i \in idx : out[i].threshold_type = "high")
           <=> (q \in DOMAIN r /\ r[q] > high)
        /\ \A i \in idx :
              /\ out[i].threshold_type \in {"low", "high"}
              /\ out[i].value = r[q]
              /\ out[i].severity =
                    IF out[i].threshold_type = "low" THEN lowSev ELSE highSev
              /\ ~out[i].is_acknowledged

\* C7.  Both engines: temperature raises low/high below 0 and high/medium
\* above 120; static pressure low/medium below 10 and high/high above 140;
\* differential pressure low/medium below 0 and high/high above 400;
\* battery low/high below 10 and high/medium above 14; a value on a bound
\* raises nothing (values in hundredths).
C7_ThresholdBoundaries ==
    ca_pc = "done" =>
        /\ RuleHolds(ca_alarms, ca_reading, "temperature",
                     0, "high", 12000, "medium")
        /\ RuleHolds(ca_alarms, ca_reading, "static_pressure",
                     1000, "medium", 14000, "high")
        /\ RuleHolds(ca_alarms, ca_reading, "differential_pressure",
                     0, "medium", 40000, "high")
        /\ RuleHolds(ca_alarms, ca_reading, "battery",
                     1000, "high", 1400, "medium")

\* C7 witness: an evaluated reading with the temperature just below its
\* low bound, the static pressure just above its high bound, and the
\* differential pressure and the battery on a bound.
C7_Witness ==
    /\ ca_pc = "done"
    /\ "temperature" \in DOMAIN ca_reading /\ ca_reading.temperature = -1
    /\ "static_pressure" \in DOMAIN ca_reading
    /\ ca_reading.static_pressure = 14001
    /\ "differential_pressure" \in DOMAIN ca_reading
    /\ ca_reading.differential_pressure = 40000
    /\ "battery" \in DOMAIN ca_reading /\ ca_reading.battery = 1000
    /\ \E i \in 1..Len(ca_alarms) : ca_alarms[i].parameter = "temperature"
    /\ \E i \in 1..Len(ca_alarms) : ca_alarms[i].parameter = "static_pressure"

\* C8.  Both engines evaluate specific gravity: low/high below 0.58,
\* high/high above 0.69, nothing in between.
C8_SpecificGravityEvaluated ==
    ca_pc = "done" =>
        RuleHolds(ca_alarms, ca_reading, "specific_gravity",
                  58, "high", 69, "high")

\* C9.  The alarms check_alarms returns for one reading hold at most one
\* alarm per parameter.
C9_OneAlarmPerParameter ==
    ca_pc = "done" =>
        \A i, j \in 1..Len(ca_alarms) :
            ca_alarms[i].parameter = ca_alarms[j].parameter => i = j

\* C9 witness: a reading with every evaluated quantity out of range, one
\* alarm for each.
C9_Witness ==
    /\ ca_pc = "done"
    /\ Len(ca_alarms) = 5
    /\ \E i \in 1..Len(ca_alarms) : ca_alarms[i].threshold_type = "low"
    /\ \E i \in 1..Len(ca_alarms) : ca_alarms[i].threshold_type = "high"

\* C10.  After MQTTService has processed the frame ST-7 / 2025/03/01
\* 10:00:00 / T11=5, T12=-3 for a station without data: one reading row,
\* two alarm rows (static pressure low/medium, temperature low/high), two
\* alarm messages to each live connection, and one notification, for the
\* temperature alarm, where recipients are configured.
C10_EndToEnd ==
    ( /\ Len(log) > 0
      /\ log[Len(log)].kind = "MQTTService"
      /\ log[Len(log)].frame = FrameE2E
      /\ log[Len(log)].created
      /\ log[Len(log)].outcome = "saved"
      /\ pc[log[Len(log)].worker] = "idle" )
    => /\ Cardinality(ReadingsOf("ST-7")) = 1
       /\ Cardinality(AlarmsOf("ST-7")) = 2
       /\ \E i \in AlarmsOf("ST-7") :
             /\ alarms[i].parameter = "static_pressure"
             /\ alarms[i].threshold_type = "low"
             /\ alarms[i].severity = "medium"
       /\ \E i \in AlarmsOf("ST-7") :
             /\ alarms[i].parameter = "temperature"
             /\ alarms[i].threshold_type = "low"
             /\ alarms[i].severity = "high"
       /\ \A k \in 1..Len(active_connections) :
             Cardinality({i \in 1..Len(sent) :
                            /\ sent[i].to = active_connections[k]
                            /\ sent[i].message.type = "alarm"
                            /\ sent[i].message.client_id = "ST-7"}) = 2
       /\ recipients # {} =>
             /\ Len(notifications) = 1
             /\ notifications[1].parameter = "temperature"

\* The send_json calls of the broadcast in progress that reached ws
Delivered_to(ws) ==
    {i \in 1..Len(sent) : sent[i] = Delivery(ws, bc_message)}

\* The send_json calls of the broadcast in progress that raised on ws
Raised_on(ws) ==
    {i \in 1..Len(bc_errors) : bc_errors[i] = Delivery(ws, bc_message)}

\* C11.  When a broadcast during which the live set did not change has
\* ended and send_json raised on some connection, every connection of the
\* live set on which it did not raise has received the message exactly
\* once.
C11_BroadcastIsolation ==
    ( /\ bc_pc = "done"
      /\ \E ws \in WebSockets : Raised_on(ws) # {} )
    => \A k \in 1..Len(active_connections) :
          Raised_on(active_connections[k]) = {}
          => Cardinality(Delivered_to(active_connections[k])) = 1

\* C11 witness: a broadcast to three connections has ended, send_json
\* raised on the first of them and the other two are healthy.
C11_Witness ==
    /\ bc_pc = "done"
    /\ Len(active_connections) = 3
    /\ Raised_on(active_connections[1]) # {}
    /\ ws_state[active_connections[2]] = "open"
    /\ ws_state[active_connections[3]] = "open"

\* C12.  When a broadcast has ended, no connection on which send_json
\* raised during it is still in the live set.
C12_FailingConnectionRemoved ==
    bc_pc = "done" =>
        \A ws \in WebSockets :
            Raised_on(ws) # {} => ~contains(active_connections, ws)

\* C13.  When a broadcast has ended, every connection that was in the live
\* set when it began and still is has been sent the message exactly once
\* (delivered or raised), whatever was connected or disconnected between
\* the sends.
C13_IterationNotCorrupted ==
    bc_pc = "done" =>
        \A ws \in bc_started_with :
            contains(active_connections, ws)
            => Cardinality(Delivered_to(ws)) + Cardinality(Raised_on(ws)) = 1

\* C14.  A pass of the offline monitor selects exactly the stations that
\* are active with a last-contact time more than 90 minutes (18 units)
\* before the time of its query, and its commit turns exactly the selected
\* stations inactive, changing no other station and no other field.
C14_SweepFlipsExactlyStale ==
    [][ /\ ( sweep_pc = "query" /\ sweep_pc' # "query" )
           => /\ offline_devices' =
                    {i \in 1..Len(devices) :
                        /\ devices[i].is_active
                        /\ devices[i].last_seen # NoTime
                        /\ devices[i].last_seen < clock - 18}
              /\ devices' = devices
        /\ ( sweep_pc = "commit" /\ sweep_pc' = "sleep" )
           => /\ Len(devices') = Len(devices)
              /\ \A i \in 1..Len(devices) :
                    /\ devices'[i].is_active =
                          (devices[i].is_active /\ i \notin offline_devices)
                    /\ devices'[i].last_seen = devices[i].last_seen
                    /\ devices'[i].client_id = devices[i].client_id ]_vars

\* C14 witness: a pass has committed; it turned one station inactive and
\* left active a station whose last contact is exactly 90 minutes old.
C14_Witness ==
    /\ sweep_pc = "sleep"
    /\ offline_notifications # << >>
    /\ \E i \in 1..Len(devices) : ~devices[i].is_active
    /\ \E i \in 1..Len(devices) :
          /\ devices[i].is_active
          /\ devices[i].last_seen = clock - StaleAfter

\* C15.  When the processing of a frame ends whose station was inactive
\* when the frame was received, the station is active.
C15_FrameReactivates ==
    [][ \A w \in Workers :
          ( /\ pc[w] # "idle" /\ pc'[w] = "idle"
            /\ session[w].device_id # NoDevice
            /\ ~session[w].loaded_active )
          => devices'[session[w].device_id].is_active ]_vars

\* C16.  A station turns from active to inactive only in the commit of the
\* offline monitor, and from inactive to active only in the commit of a
\* frame of that station.
C16_LivenessTransitions ==
    [][ \A i \in 1..Len(devices) :
          /\ ( devices[i].is_active /\ ~devices'[i].is_active )
             => ( sweep_pc = "commit" /\ sweep_pc' = "sleep"
                  /\ i \in offline_devices )
          /\ ( ~devices[i].is_active /\ devices'[i].is_active )
             => \E w \in Workers :
                   /\ pc[w] = "commit"
                   /\ pc'[w] \in {"broadcast", "report"}
                   /\ session[w].device_id = i ]_vars

\* C16 witness: the commit of a frame has turned active a station that the
\* offline monitor had turned inactive.
C16_Witness ==
    /\ offline_notifications # << >>
    /\ \E w \in Workers :
          /\ pc[w] \in {"broadcast", "report"}
          /\ ~session[w].loaded_active
          /\ devices[session[w].device_id].is_active

\* C17.  No step of the processing of a frame that is no conforming record
\* (a payload that does not decode to an object with a string identifier,
\* a content entry that is no object, a value that is not numeric) changes
\* the station, reading or alarm table or sends anything.
C17_MalformedDiscarded ==
    [][ /\ \A w \in Workers :
              ( pc[w] # "idle" /\ ~content_numeric(frame[w].content) )
              => ( /\ devices' = devices
                   /\ readings' = readings
                   /\ alarms' = alarms
                   /\ sent' = sent )
        /\ ( /\ Len(log') = Len(log) + 1
             /\ log'[Len(log')].frame = NoFrame )
           => ( /\ devices' = devices
                /\ readings' = readings
                /\ alarms' = alarms
                /\ sent' = sent ) ]_vars

\* C18.  The step in which the write of one of a frame's alarms fails
\* leaves the frame's reading persisted.
C18_AlarmFailureKeepsReading ==
    [][ \A w \in Workers :
          ( /\ pc[w] = "commit" /\ pc'[w] = "idle"
            /\ Len(log') = Len(log) + 1
            /\ log'[Len(log')].outcome = "alarm_write_failed" )
          => ( /\ Len(readings') = Len(readings) + 1
               /\ readings'[Len(readings')].client_id = session[w].client_id
               /\ readings'[Len(readings')].timestamp = session[w].timestamp )
      ]_vars

\* The step of worker w appends to sent, for every connection of the live
\* set, exactly one reading-update message of the frame's station and
\* exactly one alarm message for each alarm created from the frame, and
\* nothing else.
PublishedOnce(w) ==
    LET new   == SubSeq(sent', Len(sent) + 1, Len(sent'))
        made  == session[w].alarms_created
        To(k, P(_)) == {i \in 1..Len(new) :
                          new[i].to = active_connections[k] /\ P(new[i].message)}
    IN  /\ Len(sent') >= Len(sent)
        /\ SubSeq(sent', 1, Len(sent)) = sent
        /\ Len(new) = Len(active_connections) * (1 + Len(made))
        /\ \A k \in 1..Len(active_connections) :
              /\ Cardinality(To(k, LAMBDA m :
                     /\ m.type = "device_update"
                     /\ m.client_id = session[w].client_id
                     /\ m.device_id = session[w].device_id)) = 1
              /\ \A j \in 1..Len(made) :
                    Cardinality(To(k, LAMBDA m :
                        /\ m.type = "alarm"
                        /\ m.client_id = session[w].client_id
                        /\ m.parameter = made[j].parameter
                        /\ m.threshold_type = made[j].threshold_type
                        /\ m.severity = made[j].severity)) = 1

\* C19.  MQTTService sends messages only in the step that follows the
\* commit of a frame's reading, and in that step every live connection is
\* sent exactly one reading-update message and exactly one alarm message
\* per alarm created from the frame; a frame that was discarded or whose
\* write failed has no such step.
C19_BroadcastAfterCommit ==
    [][ /\ sent' # sent
           => \E w \in SvcWorkers :
                 /\ pc[w] = "broadcast" /\ pc'[w] = "idle"
                 /\ \E i \in LogIdx : /\ log[i].worker = w
                                      /\ log[i].frame = frame[w]
                                      /\ log[i].outcome = "saved"
        /\ \A w \in SvcWorkers :
              ( pc[w] = "broadcast" /\ pc'[w] = "idle" ) => PublishedOnce(w)
        /\ \A w \in SvcWorkers :
              ( pc[w] # "idle" /\ pc'[w] = "idle" /\ pc[w] # "broadcast" )
              => ( /\ sent' = sent
                   /\ Len(log') = Len(log) + 1
                   /\ log'[Len(log')].outcome # "saved" ) ]_vars

\* C19 witness: MQTTService has finished a frame that raised three alarms,
\* with two live connections: two reading updates and six alarm messages.
C19_Witness ==
    /\ AllIdle
    /\ Len(active_connections) = 2
    /\ Len(log) = 1
    /\ log[1].kind = "MQTTService" /\ log[1].outcome = "saved"
    /\ Len(alarms) = 3
    /\ Len(sent) = 8

\* C20.  In the step that follows the commit of a frame's reading, the
\* standalone listener sends every live connection one reading-update
\* message and one alarm message per alarm created from the frame.
C20_ListenerPublishes ==
    [][ \A w \in LsnWorkers :
          ( pc[w] = "report" /\ pc'[w] = "idle" ) => PublishedOnce(w) ]_vars

\* C21.  Whatever fails on the way to the notification of one alarm, the
\* step of MQTTService that follows the commit still sends every live
\* connection the reading update and one alarm message per alarm of the
\* frame, and changes no reading and no alarm.
C21_NotificationFailureIsolated ==
    [][ \A w \in SvcWorkers :
          ( pc[w] = "broadcast" /\ pc'[w] = "idle" )
          => ( /\ PublishedOnce(w)
               /\ readings' = readings
               /\ alarms' = alarms ) ]_vars

\* The frame's stored value of quantity q (0 for an absent code) is below
\* the low or above the high bound of q
OutOfRange(f, q) ==
    LET v == get(sensor_data(SelectSeq(f.content, isinstance_dict)), CodeOf[q])
    IN  CASE q = "temperature"           -> v < 0 \/ v > 12000
          [] q = "static_pressure"       -> v < 1000 \/ v > 14000
          [] q = "differential_pressure" -> v < 0 \/ v > 40000
          [] q = "battery"               -> v < 1000 \/ v > 1400

\* The value the reading row stores for quantity q is below the low or
\* above the high bound of q
StoredOutOfRange(r, q) ==
    CASE q = "temperature"           -> r[q] < 0 \/ r[q] > 12000
      [] q = "static_pressure"       -> r[q] < 1000 \/ r[q] > 14000
      [] q = "differential_pressure" -> r[q] < 0 \/ r[q] > 40000
      [] q = "battery"               -> r[q] < 1000 \/ r[q] > 1400

C23_AllOrNothing ==
    /\ [] ( /\ Len(readings) =
                  Cardinality({i \in LogIdx : log[i].outcome = "saved"})
            /\ \A i \in 1..Len(alarms) :
                  \E r \in 1..Len(readings) :
                      /\ readings[r].device_id = alarms[i].device_id
                      /\ readings[r][alarms[i].parameter] = alarms[i].value )
    /\ [][ \A w \in Workers :
             ( /\ pc[w] = "commit" /\ pc'[w] = "idle" )
             => ( /\ devices' = devices
                  /\ readings' = readings
                  /\ alarms' = alarms
                  /\ sent' = sent
                  /\ notifications' = notifications
                  /\ frame'[w] = NoFrame
                  /\ Len(log') = Len(log) + 1
                  /\ log'[Len(log')].frame = frame[w]
                  /\ log'[Len(log')].outcome
                        \in {"reading_write_failed", "alarm_write_failed"} )
         ]_vars

\* C23 witness: a frame of a known station failed in the write of its
\* alarms, after an earlier frame of the station was saved.
C23_Witness ==
    /\ Len(log) = 2
    /\ log[1].outcome = "saved"
    /\ log[2].outcome = "alarm_write_failed"
    /\ Len(readings) = 1
    /\ AllIdle


\* C24.  Once stop() has been called the monitor thread starts no new pass,
\* a pass whose query has selected rows when stop() is called goes on to
\* its commit, and the thread eventually ends.
C24_StopEndsSweeping ==
    /\ [][ ~running => ~(sweep_pc # "query" /\ sweep_pc' = "query") ]_vars
    /\ [][ (~running /\ sweep_pc = "commit")
             => sweep_pc' \in {"commit", "sleep"} ]_vars
    /\ (~running) ~> (sweep_pc \in {"stopped", "killed"})

\* C25.  When a pass of the offline monitor commits, every station it had
\* selected whose committed last-contact time is by then inside the 90
\* minutes (a frame of the station has committed between the query and the
\* commit of the pass) is active after the commit.
C25_SweepKeepsRefreshedActive ==
    [][ ( sweep_pc = "commit" /\ sweep_pc' = "sleep" )
        => \A i \in offline_devices :
              ( /\ devices'[i].last_seen # NoTime
                /\ ~is_stale(devices'[i].last_seen, clock') )
              => devices'[i].is_active ]_vars

\* C26.  A station that is active when the last frame has been processed,
\* with the offline monitor still before its first sleep, is eventually
\* inactive.
C26_SilentStationSwept ==
    \A i \in 1..MaxFrames :
       ( /\ Delivered = MaxFrames /\ AllIdle /\ sweeps = 0
         /\ i <= Len(devices) /\ devices[i].is_active )
       ~> ( i <= Len(devices) /\ ~devices[i].is_active )

\* C27.  Once two conforming frames of one station with different event
\* times have been processed by concurrently running workers, the store
\* holds a reading of that station for each of them.
C27_BothConcurrentFramesPersisted ==
    \A i, j \in LogIdx :
        ( /\ i # j
          /\ Keyed(log[i].frame) /\ Keyed(log[j].frame)
          /\ Conforming(log[i].frame) /\ Conforming(log[j].frame)
          /\ strip(log[i].frame.did) = strip(log[j].frame.did)
          /\ strptime(strip(log[i].frame.Utime))
                # strptime(strip(log[j].frame.Utime)) )
        => Cardinality(ReadingsOf(strip(log[i].frame.did))) >= 2

\* The frame carries no entry with this code
Absent(w, code) ==
    code \notin DOMAIN (IF w \in LsnWorkers
                        THEN listener_sensor_data(frame[w].content)
                        ELSE sensor_data(frame[w].content))

\* The commit of this step added a low alarm of this severity with value 0
\* for the quantity
LowAlarmAdded(q, severity) ==
    \E i \in (Len(alarms) + 1)..Len(alarms') :
        /\ alarms'[i].parameter = q
        /\ alarms'[i].threshold_type = "low"
        /\ alarms'[i].severity = severity
        /\ alarms'[i].value = 0

\* The step commits the reading of the frame of worker w
Accepts(w) == pc[w] = "commit" /\ pc'[w] \in {"broadcast", "report"}

C29_NotifiedStationInactive ==
    [][ ( sweep_pc = "commit" /\ sweep_pc' = "sleep" )
        => \A i \in 1..Len(devices') :
              ( \E k \in (Len(offline_notifications) + 1)
                            ..Len(offline_notifications') :
                    offline_notifications'[k] = devices'[i].client_id )
              => ~devices'[i].is_active ]_vars

\* The alarms the commit of this step added
AlarmsAdded == SubSeq(alarms', Len(alarms) + 1, Len(alarms'))

\* C30.  The commit of a frame accepted by the standalone listener adds one
\* reading; with monitoring disabled it adds no alarm, with monitoring
\* enabled it adds the alarms of the threshold rules of the five evaluated
\* parameters for the reading it stores.  A step that changes the
\* monitoring flag negates it and changes no station, reading or alarm.
C30_MonitoringSwitch ==
    [][ /\ \A w \in LsnWorkers :
             Accepts(w)
             => /\ Len(readings') = Len(readings) + 1
                /\ ~alarm_monitoring_enabled => alarms' = alarms
                /\ alarm_monitoring_enabled
                   => LET r == readings'[Len(readings')]
                      IN  /\ Len(alarms') >= Len(alarms)
                          /\ SubSeq(alarms', 1, Len(alarms)) = alarms
                          /\ \A i \in 1..Len(AlarmsAdded) :
                                /\ AlarmsAdded[i].client_id = r.client_id
                                /\ AlarmsAdded[i].device_id = r.device_id
                                /\ AlarmsAdded[i].parameter \in
                                      {"temperature", "static_pressure",
                                       "differential_pressure", "battery",
                                       "specific_gravity"}
                          /\ RuleHolds(AlarmsAdded, r, "temperature",
                                       0, "high", 12000, "medium")
                          /\ RuleHolds(AlarmsAdded, r, "static_pressure",
                                       1000, "medium", 14000, "high")
                          /\ RuleHolds(AlarmsAdded, r, "differential_pressure",
                                       0, "medium", 40000, "high")
                          /\ RuleHolds(AlarmsAdded, r, "battery",
                                       1000, "high", 1400, "medium")
                          /\ RuleHolds(AlarmsAdded, r, "specific_gravity",
                                       58, "high", 69, "high")
        /\ alarm_monitoring_enabled' # alarm_monitoring_enabled
           => /\ alarm_monitoring_enabled' = ~alarm_monitoring_enabled
              /\ UNCHANGED << devices, readings, alarms >> ]_vars

\* C30 witness: a first frame was stored with alarms, and monitoring is
\* disabled now that the listener has accepted, without an alarm, a second
\* frame whose absent T15 and T114 are stored as 0.
C30_Witness ==
    /\ ~alarm_monitoring_enabled
    /\ \E w \in LsnWorkers :
          /\ pc[w] = "report"
          /\ Absent(w, "T15") /\ Absent(w, "T114")
          /\ session[w].alarms_created = << >>
          /\ Len(readings) = 2
          /\ readings[2].client_id = session[w].client_id
          /\ readings[2].battery = 0
    /\ alarms # << >>

=============================================================================
